---- MODULE Spec2Model ----
(***************************************************************************)
(* Model of aioeasysqlite.db.Db: a schema cache (self.tables) kept next to *)
(* an SQLite database file.  Every public coroutine of Db is an operator   *)
(* from (state, arguments) to (state, raised error or "ok", return value); *)
(* the actions apply these operators.  The SQL statements the coroutines   *)
(* send are evaluated by the Engine* operators, which follow SQLite's      *)
(* documented behaviour for exactly those statements.                      *)
(***************************************************************************)
EXTENDS Integers, Sequences, FiniteSets, TLC

VARIABLES fileExists, tables, disk, lastOp, lastResult, lastReturn, calls, tasks

vars == <<fileExists, tables, disk, lastOp, lastResult, lastReturn, calls, tasks>>

---------------------------------------------------------------------------
(* Bounds of the model.                                                    *)

\* most rows a table holds before the insert action stops firing
MaxRows == 2
\* largest integer the engine may assign as a rowid in the explored runs
MaxInt == 3
\* longest sequence of calls explored from the empty database
MaxCalls == 6

MaxTasks == 2

---------------------------------------------------------------------------
(* Names are sequences of characters, so that the character rule and the   *)
(* prefix tests are computed as the code computes them.                    *)

Letters == {"a","b","c","d","e","f","g","h","i","j","k","l","m","n","o","p",
            "q","r","s","t","u","v","w","x","y","z",
            "A","B","C","D","E","F","G","H","I","J","K","L","M","N","O","P",
            "Q","R","S","T","U","V","W","X","Y","Z"}

Digits == {"0","1","2","3","4","5","6","7","8","9"}

available_chars == Letters \cup Digits \cup {"_"}

AllCharsAvailable(name) == \A i \in 1..Len(name) : name[i] \in available_chars

StartsWith(name, prefix) ==
    /\ Len(name) >= Len(prefix)
    /\ SubSeq(name, 1, Len(prefix)) = prefix

SqlitePrefix == <<"s","q","l","i","t","e","_">>

TempPrefix == <<"t","e","m","p","_">>

temp_table_name(table) == TempPrefix \o table

SequenceTableName == SqlitePrefix \o <<"s","e","q","u","e","n","c","e">>

---------------------------------------------------------------------------
(* Values: Python's None, int, float, str and bytes.  A float is kept in   *)
(* tenths (n = 15 is 1.5); str and bytes are sequences of characters.      *)

Null == [k |-> "null", n |-> 0, s |-> <<>>]
IntV(i) == [k |-> "int", n |-> i, s |-> <<>>]
RealV(tenths) == [k |-> "real", n |-> tenths, s |-> <<>>]
StrV(chars) == [k |-> "str", n |-> 0, s |-> chars]
BytesV(chars) == [k |-> "bytes", n |-> 0, s |-> chars]

IsNumber(v) == v.k \in {"int", "real"}

\* the number a value stands for, in tenths
Tenths(v) == IF v.k = "int" THEN 10 * v.n ELSE v.n

\* Python's ==, as used by "value in itms" and "new_value != current_value"
PyEq(a, b) ==
    IF IsNumber(a) /\ IsNumber(b) THEN Tenths(a) = Tenths(b)
    ELSE a.k = b.k /\ a.s = b.s

\* all([i.isdigit() for i in value])
AllDigits(chars) == \A i \in 1..Len(chars) : chars[i] \in Digits

DigitValue(c) ==
    CASE c = "0" -> 0 [] c = "1" -> 1 [] c = "2" -> 2 [] c = "3" -> 3
      [] c = "4" -> 4 [] c = "5" -> 5 [] c = "6" -> 6 [] c = "7" -> 7
      [] c = "8" -> 8 [] c = "9" -> 9

DigitChar(d) ==
    CASE d = 0 -> "0" [] d = 1 -> "1" [] d = 2 -> "2" [] d = 3 -> "3"
      [] d = 4 -> "4" [] d = 5 -> "5" [] d = 6 -> "6" [] d = 7 -> "7"
      [] d = 8 -> "8" [] d = 9 -> "9"

RECURSIVE DigitsToInt(_)
DigitsToInt(chars) ==
    IF chars = <<>> THEN 0
    ELSE 10 * DigitsToInt(SubSeq(chars, 1, Len(chars) - 1))
         + DigitValue(chars[Len(chars)])

RECURSIVE IntToDigits(_)
IntToDigits(i) ==
    IF i < 10 THEN <<DigitChar(i)>>
    ELSE IntToDigits(i \div 10) \o <<DigitChar(i % 10)>>

RealToChars(tenths) ==
    IntToDigits(tenths \div 10) \o <<".">> \o <<DigitChar(tenths % 10)>>

\* text the engine converts to a number under numeric affinity
LooksNumeric(chars) == chars # <<>> /\ AllDigits(chars)

---------------------------------------------------------------------------
(* Small helpers on functions and sequences.                               *)

Put(f, key, val) ==
    [x \in DOMAIN f \cup {key} |-> IF x = key THEN val ELSE f[x]]

Del(f, key) == [x \in DOMAIN f \ {key} |-> f[x]]

EmptyMap == [x \in {} |-> 0]

Range(seq) == {seq[i] : i \in 1..Len(seq)}

RECURSIVE SelectSeqBy(_, _)
\* the subsequence of seq at the positions in keep
SelectSeqBy(seq, keep) ==
    IF seq = <<>> THEN <<>>
    ELSE LET n == Len(seq)
             front == SelectSeqBy(SubSeq(seq, 1, n - 1), keep)
         IN  IF n \in keep THEN Append(front, seq[n]) ELSE front

\* [i["name"] for i in columns]
ColumnNames(columns) == [i \in 1..Len(columns) |-> columns[i].name]

RemoveAt(seq, i) == SubSeq(seq, 1, i - 1) \o SubSeq(seq, i + 1, Len(seq))

InsertAt(seq, i, e) == SubSeq(seq, 1, i - 1) \o <<e>> \o SubSeq(seq, i, Len(seq))

---------------------------------------------------------------------------
(* The database file.  disk.tbl maps each table of the catalog to its      *)
(* column definitions, its rows in rowid order and its sqlite_sequence     *)
(* entry; disk.hasSeq tells whether the sqlite_sequence table exists.      *)
(* A row is a function from column names to stored values.  The default of *)
(* every column is NULL: the explored add_column calls pass default=None   *)
(* or default="NULL" only.                                                 *)

EmptyDisk == [tbl |-> EmptyMap, hasSeq |-> FALSE]

ColDef(name, type, pk, notnull, unique, autoinc) ==
    [name |-> name, type |-> type, pk |-> pk, notnull |-> notnull,
     unique |-> unique, autoinc |-> autoinc]

\* PRAGMA table_info("table"): the column definitions, empty when the table
\* is not in the file
table_info(d, table) ==
    IF table \in DOMAIN d.tbl THEN d.tbl[table].cols ELSE <<>>

\* the column an INTEGER PRIMARY KEY makes an alias of the rowid, or <<>>
RowidAlias(cols) ==
    LET hits == {i \in 1..Len(cols) : cols[i].pk /\ cols[i].type = "INTEGER"}
    IN  IF hits = {} THEN <<>> ELSE cols[CHOOSE i \in hits : TRUE].name

ColOf(cols, name) == cols[CHOOSE i \in 1..Len(cols) : cols[i].name = name]

\* column affinity applied to a value that is stored in, or compared with,
\* a column of the declared type
ApplyAffinity(type, v) ==
    CASE type = "INTEGER" ->
            IF v.k = "str" /\ LooksNumeric(v.s) THEN IntV(DigitsToInt(v.s))
            ELSE IF v.k = "real" /\ v.n % 10 = 0 THEN IntV(v.n \div 10)
            ELSE v
      [] type = "REAL" ->
            IF v.k = "str" /\ LooksNumeric(v.s) THEN RealV(10 * DigitsToInt(v.s))
            ELSE IF v.k = "int" THEN RealV(10 * v.n)
            ELSE v
      [] type = "TEXT" ->
            IF v.k = "int" THEN StrV(IntToDigits(v.n))
            ELSE IF v.k = "real" THEN StrV(RealToChars(v.n))
            ELSE v
      [] OTHER -> v

\* the SQL comparison a = b of two values: NULL equals nothing, numbers
\* compare by value, text and blobs only with their own kind
SqlEq(a, b) ==
    /\ a.k # "null"
    /\ b.k # "null"
    /\ IF IsNumber(a) /\ IsNumber(b) THEN Tenths(a) = Tenths(b)
       ELSE a.k = b.k /\ a.s = b.s

\* WHERE "column" = ? on one row.  A double-quoted name that is no column
\* of the table is read by the engine as a string literal.
RowMatches(cols, row, column, value) ==
    IF column \in Range(ColumnNames(cols))
    THEN SqlEq(row[column], ApplyAffinity(ColOf(cols, column).type, value))
    ELSE SqlEq(StrV(column), value)

\* a WHERE clause that selects every row
EveryRow(cols, rows, column, value) == 1..Len(rows)

\* positions of the rows that WHERE "column" = ? selects, ascending
MatchingRows(cols, rows, column, value) ==
    {i \in 1..Len(rows) : RowMatches(cols, rows[i], column, value)}

Min(S) == CHOOSE x \in S : \A y \in S : x <= y

Max(S) == CHOOSE x \in S : \A y \in S : x >= y

EngineOk(d) == [ok |-> TRUE, disk |-> d, over |-> FALSE]

EngineError(d) == [ok |-> FALSE, disk |-> d, over |-> FALSE]

\* CREATE TABLE [IF NOT EXISTS] "table" (cols)
EngineCreateTable(d, table, cols, if_not_exists) ==
    IF StartsWith(table, SqlitePrefix) THEN EngineError(d)
    ELSE IF table \in DOMAIN d.tbl
    THEN IF if_not_exists THEN EngineOk(d) ELSE EngineError(d)
    ELSE EngineOk([tbl |-> Put(d.tbl, table, [cols |-> cols, rows |-> <<>>, seq |-> 0]),
                   hasSeq |-> d.hasSeq \/ \E i \in 1..Len(cols) : cols[i].autoinc])

\* ALTER TABLE "table" ADD COLUMN col
EngineAddColumn(d, table, col) ==
    IF table \notin DOMAIN d.tbl THEN EngineError(d)
    ELSE LET t == d.tbl[table]
         IN  IF \/ col.name \in Range(ColumnNames(t.cols))
                \/ col.pk
                \/ col.unique
                \/ (col.notnull /\ t.rows # <<>>)
             THEN EngineError(d)
             ELSE EngineOk([d EXCEPT !.tbl[table] =
                     [cols |-> Append(t.cols, col),
                      rows |-> [i \in 1..Len(t.rows) |-> Put(t.rows[i], col.name, Null)],
                      seq |-> t.seq]])

\* ALTER TABLE "table" RENAME TO "new_name"
EngineRenameTable(d, table, new_name) ==
    IF \/ table \notin DOMAIN d.tbl
       \/ new_name \in DOMAIN d.tbl
       \/ StartsWith(new_name, SqlitePrefix)
    THEN EngineError(d)
    ELSE EngineOk([d EXCEPT !.tbl = Put(Del(d.tbl, table), new_name, d.tbl[table])])

\* DROP TABLE "table", with or without IF EXISTS
EngineDropTable(d, table, if_exists) ==
    IF table \notin DOMAIN d.tbl
    THEN IF if_exists THEN EngineOk(d) ELSE EngineError(d)
    ELSE EngineOk([d EXCEPT !.tbl = Del(d.tbl, table)])

\* a copy statement that succeeds and copies no row
EngineCopyNothing(d, target, source, names) == EngineOk(d)

\* INSERT INTO "target" (names) SELECT names FROM "source"
EngineCopyRows(d, target, source, names) ==
    IF target \notin DOMAIN d.tbl \/ source \notin DOMAIN d.tbl THEN EngineError(d)
    ELSE LET src == d.tbl[source].rows
         IN  EngineOk([d EXCEPT !.tbl[target].rows =
                 [i \in 1..Len(src) |-> [c \in Range(names) |-> src[i][c]]]])

---------------------------------------------------------------------------
(* The handle.  A state is [file, tables, disk]: whether the database file *)
(* exists, the schema cache self.tables (table name -> list of column      *)
(* descriptors) and the contents of the file.  A call yields the state it  *)
(* leaves, the exception class it raises ("ok" when it returns) and the    *)
(* value it returns.                                                       *)

Descriptor(name, type, unique) == [name |-> name, type |-> type, is_unique |-> unique]

NoValue == [kind |-> "none", val |-> <<>>]

RowsValue(rows) == [kind |-> "rows", val |-> rows]

RowValue(row) == [kind |-> "row", val |-> <<row>>]

PairsValue(pairs) == [kind |-> "pairs", val |-> pairs]

\* over marks a call in which the engine assigned a rowid above MaxInt
Return(st, ret) == [st |-> st, res |-> "ok", ret |-> ret, over |-> FALSE]

Raise(st, error) == [st |-> st, res |-> error, ret |-> NoValue, over |-> FALSE]

\* a check that takes every path for an existing file
path_assumed(st) == TRUE

\* os.path.exists(self.path_to_database)
path_exists(st) == st.file

\* the db_exists decorator: the wrapped coroutine runs only when the file
\* exists
db_exists(st, call) ==
    IF ~path_exists(st) THEN Raise(st, "PathNotFound") ELSE call

\* aiosqlite.connect(path): opening a connection creates a missing file
connect(st) == [st EXCEPT !.file = TRUE]

\* a cache in which no name is found
NoCachedNames(st, table) == {}

\* the cached column names of a table
CachedNames(st, table) == Range(ColumnNames(st.tables[table]))

\* Db._get_pk: the first column PRAGMA table_info reports with pk = 1
get_pk(st, table) ==
    LET rows == table_info(st.disk, table)
        hits == {i \in 1..Len(rows) : rows[i].pk}
    IN  IF hits = {} THEN <<>> ELSE rows[Min(hits)].name

\* Db._get_type: the declared type PRAGMA table_info reports, "" for None
get_type(st, table, column) ==
    LET rows == table_info(st.disk, table)
        hits == {i \in 1..Len(rows) : rows[i].name = column}
    IN  IF hits = {} THEN "" ELSE rows[Min(hits)].type

\* Db._get_nn: the columns PRAGMA table_info reports with notnull = 1
get_nn(st, table) ==
    LET rows == table_info(st.disk, table)
    IN  {rows[i].name : i \in {j \in 1..Len(rows) : rows[j].notnull}}

\* Db._get_uq: the cached columns whose is_unique flag is set
get_uq(st, table) ==
    LET columns == st.tables[table]
    IN  {columns[i].name : i \in {j \in 1..Len(columns) : columns[j].is_unique}}

\* Db.new_table
new_table(st, name) ==
    db_exists(st,
      IF StartsWith(name, SqlitePrefix) THEN Raise(st, "InvalidTableName")
      ELSE IF ~AllCharsAvailable(name) THEN Raise(st, "InvalidCharacterInName")
      ELSE IF name \in DOMAIN st.tables THEN Raise(st, "TableAlreadyExists")
      ELSE Return([st EXCEPT !.tables = Put(st.tables, name, <<>>)], NoValue))

\* Db.get_table
get_table(st, table) ==
    db_exists(st,
      IF table \notin DOMAIN st.tables THEN Raise(st, "TableNotFound")
      ELSE IF Len(st.tables[table]) = 0 THEN Return(st, RowsValue(<<>>))
      ELSE IF table \notin DOMAIN st.disk.tbl
      THEN Raise(connect(st), "AioEasySqliteError")
      ELSE Return(connect(st), RowsValue(st.disk.tbl[table].rows)))

\* Db.edit_table: the cache entry is moved before the statement runs
edit_table(st, table, new_name) ==
    db_exists(st,
      IF ~AllCharsAvailable(new_name) THEN Raise(st, "InvalidCharacterInName")
      ELSE IF table \notin DOMAIN st.tables THEN Raise(st, "TableNotFound")
      ELSE IF new_name \in DOMAIN st.tables THEN Raise(st, "TableAlreadyExists")
      ELSE LET moved == Put(Del(st.tables, table), new_name, st.tables[table])
               e == EngineRenameTable(st.disk, table, new_name)
               st1 == [connect(st) EXCEPT !.tables = moved, !.disk = e.disk]
           IN  IF e.ok THEN Return(st1, NoValue)
               ELSE Raise(st1, "AioEasySqliteError"))

\* Db.delete_table: the cache entry is deleted after the statement
delete_table(st, table) ==
    db_exists(st,
      IF table \notin DOMAIN st.tables THEN Raise(st, "TableNotFound")
      ELSE LET e == EngineDropTable(st.disk, table, TRUE)
           IN  IF e.ok
               THEN Return([connect(st) EXCEPT !.disk = e.disk,
                                               !.tables = Del(st.tables, table)],
                           NoValue)
               ELSE Raise(connect(st), "AioEasySqliteError"))

KnownTypes == {"TEXT", "INTEGER", "REAL", "BLOB"}

\* Db.add_column.  c = [type, primary_key, autoincrement, not_null, unique,
\* default]; default is "None" or the string "NULL".  The descriptor is
\* appended to the cache before the remaining checks and the statement.
add_column(st, table, name, c) ==
    db_exists(st,
      IF ~AllCharsAvailable(name) THEN Raise(st, "InvalidCharacterInName")
      ELSE IF c.type \notin KnownTypes THEN Raise(st, "UnknownColumnType")
      ELSE IF table \notin DOMAIN st.tables THEN Raise(st, "TableNotFound")
      ELSE IF name \in CachedNames(st, table) THEN Raise(st, "ColumnAlreadyExists")
      ELSE
        LET appended == Append(st.tables[table], Descriptor(name, c.type, c.unique))
            st1 == [connect(st) EXCEPT !.tables[table] = appended]
            primary_key_col == get_pk(st1, table)
            with_pk == c.primary_key /\ primary_key_col = <<>>
            with_ai == c.autoincrement /\ c.type = "INTEGER" /\ c.primary_key
            col == ColDef(name, c.type, with_pk, c.not_null, c.unique, with_ai)
            e == IF Len(appended) = 1
                 THEN EngineCreateTable(st1.disk, table, <<col>>, TRUE)
                 ELSE EngineAddColumn(st1.disk, table, col)
        IN  IF c.primary_key /\ primary_key_col # <<>>
            THEN Raise(st1, "MultiplePrimaryKeys")
            ELSE IF c.autoincrement /\ c.type # "INTEGER" /\ c.primary_key
            THEN Raise(st1, "InvalidAutoincrementUsage")
            ELSE IF c.autoincrement /\ ~c.primary_key
            THEN Raise(st1, "InvalidAutoincrementUsage")
            ELSE IF c.default = "NULL" /\ c.not_null
            THEN Raise(st1, "InvalidDefaultValue")
            ELSE IF e.ok THEN Return([st1 EXCEPT !.disk = e.disk], NoValue)
            ELSE Raise(st1, "AioEasySqliteError"))

\* Db.add_column up to its first await: the decorator's file test, the four
\* argument tests and the append to the cached column list run without
\* yielding to the event loop
add_column_begin(st, table, name, c) ==
    db_exists(st,
      IF ~AllCharsAvailable(name) THEN Raise(st, "InvalidCharacterInName")
      ELSE IF c.type \notin KnownTypes THEN Raise(st, "UnknownColumnType")
      ELSE IF table \notin DOMAIN st.tables THEN Raise(st, "TableNotFound")
      ELSE IF name \in CachedNames(st, table) THEN Raise(st, "ColumnAlreadyExists")
      ELSE Return([st EXCEPT !.tables[table] =
                      Append(@, Descriptor(name, c.type, c.unique))], NoValue))

\* Db.add_column from the return of await self._get_pk(table) to the next
\* await: the tests on the parameters, with the key column read from the file
add_column_parameters(st, table, c) ==
    LET st1 == connect(st)
        primary_key_col == get_pk(st1, table)
        res == IF c.primary_key /\ primary_key_col # <<>> THEN "MultiplePrimaryKeys"
               ELSE IF c.autoincrement /\ c.type # "INTEGER" /\ c.primary_key
               THEN "InvalidAutoincrementUsage"
               ELSE IF c.autoincrement /\ ~c.primary_key
               THEN "InvalidAutoincrementUsage"
               ELSE IF c.default = "NULL" /\ c.not_null THEN "InvalidDefaultValue"
               ELSE "ok"
    IN  [st |-> st1, res |-> res, primary_key_col |-> primary_key_col]

\* Db.add_column from the opened connection to the commit: the statement is
\* chosen by the length the cached column list has by then
add_column_statement(st, table, name, c, primary_key_col) ==
    LET st1 == connect(st)
        with_pk == c.primary_key /\ primary_key_col = <<>>
        with_ai == c.autoincrement /\ c.type = "INTEGER" /\ c.primary_key
        col == ColDef(name, c.type, with_pk, c.not_null, c.unique, with_ai)
        e == IF Len(st1.tables[table]) = 1
             THEN EngineCreateTable(st1.disk, table, <<col>>, TRUE)
             ELSE EngineAddColumn(st1.disk, table, col)
    IN  IF e.ok THEN Return([st1 EXCEPT !.disk = e.disk], NoValue)
        ELSE Raise(st1, "AioEasySqliteError")

\* the statements of Db._remove_column between BEGIN and commit; a failing
\* statement leaves the transaction uncommitted and the file as it was
EngineRebuild(d, table, columns) ==
    LET temp == temp_table_name(table)
        plain == [i \in 1..Len(columns) |->
                    ColDef(columns[i].name, columns[i].type, FALSE, FALSE, FALSE, FALSE)]
        s1 == EngineCreateTable(d, temp, plain, FALSE)
        s2 == EngineCopyRows(s1.disk, temp, table, ColumnNames(columns))
        s3 == EngineDropTable(s2.disk, table, FALSE)
        s4 == EngineRenameTable(s3.disk, temp, table)
    IN  IF s1.ok /\ s2.ok /\ s3.ok /\ s4.ok THEN EngineOk(s4.disk)
        ELSE EngineError(d)

\* Db._remove_column
remove_column(st, table, column) ==
    db_exists(st,
      LET info == table_info(st.disk, table)
          columns == SelectSeqBy(info, {i \in 1..Len(info) : info[i].name # column})
      IN  IF columns = <<>>
          THEN LET r == delete_table(connect(st), table)
               IN  IF r.res = "ok" THEN r ELSE Raise(r.st, "AioEasySqliteError")
          ELSE LET cached == st.tables[table]
                   kept == SelectSeqBy(cached,
                              {i \in 1..Len(cached) : cached[i].name # column})
                   st1 == [connect(st) EXCEPT !.tables[table] = kept]
                   e == EngineRebuild(st1.disk, table, columns)
               IN  IF e.ok THEN Return([st1 EXCEPT !.disk = e.disk], NoValue)
                   ELSE Raise(st1, "AioEasySqliteError"))

\* Db.delete_column: every exception raised inside the try block, the two
\* precondition errors included, leaves as the base error
delete_column(st, table, column) ==
    db_exists(st,
      IF table \notin DOMAIN st.tables THEN Raise(st, "AioEasySqliteError")
      ELSE IF column \notin CachedNames(st, table) THEN Raise(st, "AioEasySqliteError")
      ELSE LET r == remove_column(st, table, column)
           IN  IF r.res = "ok" THEN r ELSE Raise(r.st, "AioEasySqliteError"))

\* Db.clear_database: the file is removed and an empty one created
clear_database(st) ==
    db_exists(st,
      Return(connect([file |-> FALSE, tables |-> EmptyMap, disk |-> EmptyDisk]),
             NoValue))

\* Db._is_column_unique: the finally clause returns False on every path
is_column_unique(st, table_name, column_name) == FALSE

\* the tables of sqlite_master with the columns PRAGMA table_info reports
Catalog(d) ==
    LET user == [t \in DOMAIN d.tbl |->
                   [i \in 1..Len(d.tbl[t].cols) |->
                      [name |-> d.tbl[t].cols[i].name, type |-> d.tbl[t].cols[i].type]]]
    IN  IF d.hasSeq
        THEN Put(user, SequenceTableName,
                 << [name |-> <<"n","a","m","e">>, type |-> ""],
                    [name |-> <<"s","e","q">>, type |-> ""] >>)
        ELSE user

\* Db._retrieveData
retrieveData(st) ==
    LET catalog == Catalog(st.disk)
    IN  [t \in DOMAIN catalog |->
           [i \in 1..Len(catalog[t]) |->
              Descriptor(catalog[t][i].name, catalog[t][i].type,
                         is_column_unique(st, t, catalog[t][i].name))]]

\* Db.load_data
load_data(st) ==
    db_exists(st, Return([connect(st) EXCEPT !.tables = retrieveData(st)], NoValue))

---------------------------------------------------------------------------
(* Row statements.                                                         *)

\* the position at which a row with rowid id goes into rows kept in rowid
\* order, alias being the INTEGER PRIMARY KEY column
SortedPosition(rows, alias, id) ==
    1 + Cardinality({i \in 1..Len(rows) : rows[i][alias].n < id})

\* a value stored in column col would repeat a value of another row
\* (skip is the position of the row being updated, 0 for an insert)
RepeatsValue(rows, col, v, skip) ==
    /\ col.pk \/ col.unique
    /\ \E i \in 1..Len(rows) : i # skip /\ SqlEq(rows[i][col.name], v)

\* INSERT INTO "table" (cols) VALUES (vals)
EngineInsert(d, table, cols, vals) ==
    IF table \notin DOMAIN d.tbl THEN EngineError(d)
    ELSE
      LET t == d.tbl[table]
          names == Range(ColumnNames(t.cols))
          alias == RowidAlias(t.cols)
          given(name) == IF name \in Range(cols)
                         THEN vals[CHOOSE i \in 1..Len(cols) : cols[i] = name]
                         ELSE Null
          stored(name) == ApplyAffinity(ColOf(t.cols, name).type, given(name))
          used == {t.rows[i][alias].n : i \in 1..Len(t.rows)}
                    \cup (IF alias # <<>> /\ ColOf(t.cols, alias).autoinc
                          THEN {t.seq} ELSE {})
          next_id == IF used = {} THEN 1 ELSE Max(used) + 1
          row == [name \in names |->
                    IF name = alias /\ stored(name).k = "null" THEN IntV(next_id)
                    ELSE stored(name)]
          mismatch == alias # <<>> /\ row[alias].k # "int"
          null_in_notnull == \E i \in 1..Len(t.cols) :
                                t.cols[i].notnull /\ row[t.cols[i].name].k = "null"
          repeated == \E i \in 1..Len(t.cols) :
                         RepeatsValue(t.rows, t.cols[i], row[t.cols[i].name], 0)
          rows1 == IF alias = <<>> THEN Append(t.rows, row)
                   ELSE InsertAt(t.rows, SortedPosition(t.rows, alias, row[alias].n), row)
          seq1 == IF alias # <<>> /\ ColOf(t.cols, alias).autoinc /\ row[alias].n > t.seq
                  THEN row[alias].n ELSE t.seq
      IN  IF \E i \in 1..Len(cols) : cols[i] \notin names THEN EngineError(d)
          ELSE IF mismatch \/ null_in_notnull \/ repeated THEN EngineError(d)
          ELSE [ok |-> TRUE,
                disk |-> [d EXCEPT !.tbl[table] =
                            [cols |-> t.cols, rows |-> rows1, seq |-> seq1]],
                over |-> alias # <<>> /\ row[alias].n > MaxInt]

\* UPDATE "table" SET "column_edit" = ? WHERE rowid =
\*   (SELECT rowid FROM "table" WHERE "column_find" = ? LIMIT 1)
EngineUpdate(d, table, column_edit, new_value, column_find, current_value) ==
    IF table \notin DOMAIN d.tbl THEN EngineError(d)
    ELSE
      LET t == d.tbl[table]
          alias == RowidAlias(t.cols)
          sel == MatchingRows(t.cols, t.rows, column_find, current_value)
          i == Min(sel)
          col == ColOf(t.cols, column_edit)
          v == ApplyAffinity(col.type, new_value)
          row == [t.rows[i] EXCEPT ![column_edit] = v]
          others == RemoveAt(t.rows, i)
          rows1 == IF column_edit = alias
                   THEN InsertAt(others, SortedPosition(others, alias, v.n), row)
                   ELSE [t.rows EXCEPT ![i] = row]
      IN  IF column_edit \notin Range(ColumnNames(t.cols)) THEN EngineError(d)
          ELSE IF sel = {} THEN EngineOk(d)
          ELSE IF \/ (column_edit = alias /\ v.k # "int")
                  \/ (col.notnull /\ v.k = "null")
                  \/ RepeatsValue(t.rows, col, v, i)
          THEN EngineError(d)
          ELSE EngineOk([d EXCEPT !.tbl[table].rows = rows1])

\* DELETE FROM "table" WHERE "column" = ?
EngineDelete(d, table, column, value) ==
    IF table \notin DOMAIN d.tbl THEN EngineError(d)
    ELSE LET t == d.tbl[table]
             sel == MatchingRows(t.cols, t.rows, column, value)
         IN  EngineOk([d EXCEPT !.tbl[table].rows =
                 SelectSeqBy(t.rows, (1..Len(t.rows)) \ sel)])

\* SELECT "column" FROM "table": one value per row; a double-quoted name
\* that is no column of the table yields the name as text
SelectColumn(d, table, column) ==
    LET t == d.tbl[table]
    IN  [i \in 1..Len(t.rows) |->
           IF column \in Range(ColumnNames(t.cols)) THEN t.rows[i][column]
           ELSE StrV(column)]

---------------------------------------------------------------------------
(* Row operations of the handle.                                           *)

\* Db.get_column.  With type "PK" the statement selects the key and the
\* column, and the pairs are built from the first selected value.
get_column(st, table, column, type) ==
    db_exists(st,
      IF table \notin DOMAIN st.tables THEN Raise(st, "TableNotFound")
      ELSE IF column \notin CachedNames(st, table) THEN Raise(st, "ColumnNotFound")
      ELSE IF Len(st.tables[table]) = 0 THEN Return(st, NoValue)
      ELSE IF type \notin {"PK", "IND"} THEN Raise(st, "InvalidType")
      ELSE
        LET st1 == connect(st)
            primary_key == get_pk(st1, table)
            first == IF primary_key # <<>> /\ type = "PK" THEN primary_key ELSE column
            items == SelectColumn(st1.disk, table, first)
        IN  IF primary_key = <<>> /\ type = "PK" THEN Raise(st1, "AioEasySqliteError")
            ELSE IF table \notin DOMAIN st1.disk.tbl THEN Raise(st1, "AioEasySqliteError")
            ELSE IF items = <<>> THEN Return(st1, NoValue)
            ELSE Return(st1, PairsValue([i \in 1..Len(items) |-> <<IntV(i - 1), items[i]>>])))

\* the type checks insert row makes on one value: the exception raised
\* ("ok" for none) and the value passed to the statement.  Every value of
\* the model is None, int, float, str or bytes, so the last branch of the
\* chain (UnsupportedValueType) is never taken.
CheckInsertValue(ctype, value) ==
    IF value.k = "str" /\ ctype \in {"INTEGER", "REAL"} /\ ~AllDigits(value.s)
    THEN [res |-> "InvalidValueConversion", value |-> value]
    ELSE IF value.k = "bytes" /\ ctype # "BLOB"
    THEN [res |-> "InvalidValueConversion", value |-> value]
    ELSE IF ctype = "BLOB"
    THEN IF value.k = "str" THEN [res |-> "ok", value |-> BytesV(value.s)]
         ELSE [res |-> "TypeError", value |-> value]
    ELSE [res |-> "ok", value |-> value]

\* the type checks edit row makes on the new value: for a BLOB column the
\* TypeError is raised after the encoding as well
CheckEditValue(ctype, value) ==
    IF value.k = "str" /\ ctype \in {"INTEGER", "REAL"} /\ ~AllDigits(value.s)
    THEN [res |-> "InvalidValueConversion", value |-> value]
    ELSE IF value.k = "bytes" /\ ctype # "BLOB"
    THEN [res |-> "InvalidValueConversion", value |-> value]
    ELSE IF ctype = "BLOB"
    THEN [res |-> "TypeError",
          value |-> IF value.k = "str" THEN BytesV(value.s) ELSE value]
    ELSE [res |-> "ok", value |-> value]

\* the values get_column(table, column, "IND") returns, as a list
ColumnItems(st, table, column) ==
    LET r == get_column(st, table, column, "IND")
    IN  IF r.ret.kind = "pairs"
        THEN [i \in 1..Len(r.ret.val) |-> r.ret.val[i][2]]
        ELSE <<>>

\* value in itms
InItems(value, itms) == \E i \in 1..Len(itms) : PyEq(value, itms[i])

\* the first loop of Db.add_row on one (column, value) pair
CheckInsertPair(st, table, pair) ==
    IF pair[1] \notin CachedNames(st, table) THEN "ColumnNotFound"
    ELSE IF get_type(st, table, pair[1]) = "" THEN "AioEasySqliteError"
    ELSE CheckInsertValue(get_type(st, table, pair[1]), pair[2]).res

\* the second loop of Db.add_row on one (column, value) pair
CheckInsertConstraints(st, table, pair) ==
    LET pk_col == get_pk(st, table)
        itms == ColumnItems(st, table, pair[1])
    IN  IF /\ (pair[1] = pk_col \/ pair[1] \in get_uq(st, table))
           /\ InItems(pair[2], itms)
        THEN "UniqueConstraintViolation"
        ELSE IF pair[1] \in get_nn(st, table) /\ pair[2].k = "null"
        THEN "NotNullConstraintViolation"
        ELSE "ok"

\* Db.add_row; args is a list of <<column, value>> pairs
add_row(st, table, args) ==
    db_exists(st,
      IF table \notin DOMAIN st.tables THEN Raise(st, "TableNotFound")
      ELSE IF Len(args) = 0 THEN Raise(st, "InvalidArgsType")
      ELSE IF \E i \in 1..Len(args) : Len(args[i]) # 2 THEN Raise(st, "InvalidArgsLength")
      ELSE
        LET st1 == connect(st)
            bad == {i \in 1..Len(args) : CheckInsertPair(st1, table, args[i]) # "ok"}
            cols == [i \in 1..Len(args) |-> args[i][1]]
            vals == [i \in 1..Len(args) |->
                       CheckInsertValue(get_type(st1, table, args[i][1]), args[i][2]).value]
            items == get_table(st1, table)
            broken == {i \in 1..Len(args) :
                          CheckInsertConstraints(st1, table, args[i]) # "ok"}
            e == EngineInsert(st1.disk, table, cols, vals)
        IN  IF bad # {} THEN Raise(st1, CheckInsertPair(st1, table, args[Min(bad)]))
            ELSE IF Len(cols) > Cardinality(Range(cols))
            THEN Raise(st1, "DuplicateColumnInArgs")
            ELSE IF items.res # "ok" THEN Raise(st1, items.res)
            ELSE IF broken # {}
            THEN Raise(st1, CheckInsertConstraints(st1, table, args[Min(broken)]))
            ELSE IF e.ok THEN [st |-> [st1 EXCEPT !.disk = e.disk], res |-> "ok",
                               ret |-> NoValue, over |-> e.over]
            ELSE Raise(st1, "AioEasySqliteError"))

\* Db.add_row up to the await of get_table: the tests on the arguments and
\* the first loop, which reads the declared type of each column
add_row_begin(st, table, args) ==
    db_exists(st,
      IF table \notin DOMAIN st.tables THEN Raise(st, "TableNotFound")
      ELSE IF Len(args) = 0 THEN Raise(st, "InvalidArgsType")
      ELSE IF \E i \in 1..Len(args) : Len(args[i]) # 2 THEN Raise(st, "InvalidArgsLength")
      ELSE
        LET st1 == connect(st)
            bad == {i \in 1..Len(args) : CheckInsertPair(st1, table, args[i]) # "ok"}
            cols == [i \in 1..Len(args) |-> args[i][1]]
        IN  IF bad # {} THEN Raise(st1, CheckInsertPair(st1, table, args[Min(bad)]))
            ELSE IF Len(cols) > Cardinality(Range(cols))
            THEN Raise(st1, "DuplicateColumnInArgs")
            ELSE Return(st1, NoValue))

\* Db.add_row from get_table to the await of the connection: the rows are
\* read and the second loop tests the values against them
add_row_constraints(st, table, args) ==
    LET st1 == connect(st)
        items == get_table(st1, table)
        broken == {i \in 1..Len(args) :
                      CheckInsertConstraints(st1, table, args[i]) # "ok"}
    IN  IF items.res # "ok" THEN Raise(st1, items.res)
        ELSE IF broken # {}
        THEN Raise(st1, CheckInsertConstraints(st1, table, args[Min(broken)]))
        ELSE Return(st1, NoValue)

\* Db.add_row from the opened connection to the commit; the values are the
\* ones the first loop converted
add_row_statement(st, table, args) ==
    LET st1 == connect(st)
        cols == [i \in 1..Len(args) |-> args[i][1]]
        vals == [i \in 1..Len(args) |->
                   CheckInsertValue(get_type(st1, table, args[i][1]), args[i][2]).value]
        e == EngineInsert(st1.disk, table, cols, vals)
    IN  IF e.ok THEN [st |-> [st1 EXCEPT !.disk = e.disk], res |-> "ok",
                      ret |-> NoValue, over |-> e.over]
        ELSE Raise(st1, "AioEasySqliteError")

\* Db.edit_row; find_args and edit_args are <<column, value>> pairs
edit_row(st, table, find_args, edit_args) ==
    db_exists(st,
      IF table \notin DOMAIN st.tables THEN Raise(st, "TableNotFound")
      ELSE IF Len(find_args) # 2 \/ Len(edit_args) # 2 THEN Raise(st, "InvalidArgsType")
      ELSE
        LET column_edit == edit_args[1]
            column_find == find_args[1]
            current_value == find_args[2]
            st1 == connect(st)
            ctype == get_type(st1, table, column_edit)
            checked == CheckEditValue(ctype, edit_args[2])
            new_value == checked.value
            items == get_table(st1, table)
            pk_col == get_pk(st1, table)
            itms == ColumnItems(st1, table, column_edit)
            e == EngineUpdate(st1.disk, table, column_edit, new_value,
                              column_find, current_value)
        IN  IF column_edit \notin CachedNames(st, table) THEN Raise(st, "ColumnNotFound")
            ELSE IF column_find \notin CachedNames(st, table) THEN Raise(st, "ColumnNotFound")
            ELSE IF ctype = "" THEN Raise(st1, "AioEasySqliteError")
            ELSE IF checked.res # "ok" THEN Raise(st1, checked.res)
            ELSE IF items.res # "ok" THEN Raise(st1, items.res)
            ELSE IF /\ (column_edit = pk_col \/ column_edit \in get_uq(st1, table))
                    /\ InItems(new_value, itms)
                    /\ ~PyEq(new_value, current_value)
            THEN Raise(st1, "UniqueConstraintViolation")
            ELSE IF column_edit \in get_nn(st1, table) /\ new_value.k = "null"
            THEN Raise(st1, "NotNullConstraintViolation")
            ELSE IF e.ok THEN Return([st1 EXCEPT !.disk = e.disk], NoValue)
            ELSE Raise(st1, "AioEasySqliteError"))

NoArg == <<>>

NoIndex == [given |-> FALSE, i |-> 0]

Index(i) == [given |-> TRUE, i |-> i]

\* Db.get_row; arg is a <<column, value>> pair or NoArg, index an Index or
\* NoIndex.  "not index" holds for None and for 0.
get_row(st, table, arg, index) ==
    db_exists(st,
      IF table \notin DOMAIN st.tables THEN Raise(st, "TableNotFound")
      ELSE IF arg = NoArg /\ ~index.given THEN Raise(st, "MissingRequiredArgument")
      ELSE IF arg # NoArg /\ (~index.given \/ index.i = 0)
      THEN IF arg[1] \notin CachedNames(st, table) THEN Raise(st, "ColumnNotFound")
           ELSE IF Len(arg) # 2 THEN Raise(st, "InvalidArgsType")
           ELSE IF table \notin DOMAIN st.disk.tbl
           THEN Raise(connect(st), "AioEasySqliteError")
           ELSE LET t == st.disk.tbl[table]
                    sel == MatchingRows(t.cols, t.rows, arg[1], arg[2])
                IN  IF sel = {} THEN Return(connect(st), NoValue)
                    ELSE Return(connect(st), RowValue(t.rows[Min(sel)]))
      ELSE IF index.i < 0 THEN Raise(st, "InvalidIndexValue")
      ELSE LET table_info_ == get_table(st, table)
           IN  IF table_info_.res # "ok" THEN table_info_
               ELSE IF Len(table_info_.ret.val) = 0 THEN Return(table_info_.st, NoValue)
               ELSE IF index.i >= Len(table_info_.ret.val)
               THEN Raise(table_info_.st, "IndexOutOfRange")
               ELSE Return(table_info_.st, RowValue(table_info_.ret.val[index.i + 1])))

\* Db.delete_row; arg is a <<column, value>> pair
delete_row(st, table, arg) ==
    db_exists(st,
      IF table \notin DOMAIN st.tables THEN Raise(st, "TableNotFound")
      ELSE IF Len(arg) # 2 THEN Raise(st, "InvalidArgsType")
      ELSE IF arg[1] \notin CachedNames(st, table) THEN Raise(st, "ColumnNotFound")
      ELSE LET e == EngineDelete(st.disk, table, arg[1], arg[2])
           IN  IF e.ok THEN Return([connect(st) EXCEPT !.disk = e.disk], NoValue)
               ELSE Raise(connect(st), "AioEasySqliteError"))

---------------------------------------------------------------------------
(* Inputs of the explored calls.                                           *)

name_a == <<"a">>

name_x == <<"x">>

name_y == <<"y">>

name_z == <<"z">>

\* a name with a character outside available_chars
BadName == <<"a", "-">>

\* a name with the prefix the engine reserves
ReservedName == SqlitePrefix \o name_a

\* the tables of the schema runs: temp_a is the name drop column gives the
\* shadow table of a
TableNames == {name_a, temp_table_name(name_a)}

\* names that new_table and edit_table must turn down
RefusedNames == {BadName, ReservedName}

ColNames == {name_x, name_y, BadName}

ColumnSpec(type, primary_key, autoincrement, not_null, unique, default) ==
    [type |-> type, primary_key |-> primary_key, autoincrement |-> autoincrement,
     not_null |-> not_null, unique |-> unique, default |-> default]

Plain(type) == ColumnSpec(type, FALSE, FALSE, FALSE, FALSE, "None")

PrimaryKey(type) == ColumnSpec(type, TRUE, FALSE, FALSE, FALSE, "None")

NotNull(type) == ColumnSpec(type, FALSE, FALSE, TRUE, FALSE, "None")

Unique(type) == ColumnSpec(type, FALSE, FALSE, FALSE, TRUE, "None")

\* the add_column arguments of the schema runs: one per branch of the
\* method
ColumnSpecs ==
    { Plain("INTEGER"), Plain("BOOL"),
      PrimaryKey("INTEGER"),
      ColumnSpec("INTEGER", TRUE, TRUE, FALSE, FALSE, "None"),
      ColumnSpec("TEXT", TRUE, TRUE, FALSE, FALSE, "None"),
      ColumnSpec("INTEGER", FALSE, TRUE, FALSE, FALSE, "None"),
      NotNull("INTEGER"),
      ColumnSpec("INTEGER", FALSE, FALSE, TRUE, FALSE, "NULL"),
      Unique("INTEGER") }

\* the values of the row runs: int, digit str, other str, bytes, None
Values == {IntV(1), StrV(<<"1">>), StrV(name_y), BytesV(name_y), Null}

Pairs(columns, values) == {<<c, v>> : c \in columns, v \in values}

\* argument lists of one or two pairs, and the empty list
ArgLists(pairs) ==
    {<<>>} \cup {<<p>> : p \in pairs} \cup {<<p, q>> : p \in pairs, q \in pairs}

RowArgs == ArgLists(Pairs({name_x, name_y}, Values)) \cup {<< <<name_z, Null>> >>}

Indexes == {NoIndex} \cup {Index(i) : i \in -1..MaxRows}

---------------------------------------------------------------------------
(* Actions: one per public coroutine, and the file disappearing or being   *)
(* created from outside the handle.                                        *)

Cur == [file |-> fileExists, tables |-> tables, disk |-> disk]

\* the coroutines in flight on the handle: each task is idle or suspended at
\* one of the awaits of Db.add_column or Db.add_row, with the arguments of
\* its call and the primary_key_col it has read
Idle == [pc |-> "idle", table |-> <<>>, name |-> <<>>, c |-> Plain("INTEGER"),
         primary_key_col |-> <<>>, args |-> <<>>]

TaskIds == 1..MaxTasks

NoTasks == [t \in TaskIds |-> Idle]

Apply(op, r) ==
    /\ fileExists' = r.st.file
    /\ tables' = r.st.tables
    /\ disk' = r.st.disk
    /\ lastOp' = op
    /\ lastResult' = r.res
    /\ lastReturn' = r.ret
    /\ UNCHANGED tasks

RowCount(d, table) == IF table \in DOMAIN d.tbl THEN Len(d.tbl[table].rows) ELSE 0

LoadData == Apply("load_data", load_data(Cur))

ClearDatabase == Apply("clear_database", clear_database(Cur))

NewTable(T) == \E name \in T : Apply("new_table", new_table(Cur, name))

GetTable(T) == \E table \in T : Apply("get_table", get_table(Cur, table))

EditTable(T, N) ==
    \E table \in T, new_name \in N :
        Apply("edit_table", edit_table(Cur, table, new_name))

DeleteTable(T) == \E table \in T : Apply("delete_table", delete_table(Cur, table))

AddColumn(T, C, S) ==
    \E table \in T, name \in C, c \in S :
        Apply("add_column", add_column(Cur, table, name, c))

GetColumn(T, C) ==
    \E table \in T, column \in C, type \in {"PK", "IND", "ZZ"} :
        Apply("get_column", get_column(Cur, table, column, type))

DeleteColumn(T, C) ==
    \E table \in T, column \in C :
        Apply("delete_column", delete_column(Cur, table, column))

AddRow(T, A) ==
    \E table \in T, args \in A :
        LET r == add_row(Cur, table, args)
        IN  /\ ~r.over
            /\ r.res = "ok" => RowCount(disk, table) < MaxRows
            /\ Apply("add_row", r)

EditRow(T, P) ==
    \E table \in T, find_args \in P, edit_args \in P :
        Apply("edit_row", edit_row(Cur, table, find_args, edit_args))

GetRow(T, P) ==
    \E table \in T, arg \in P \cup {NoArg}, index \in Indexes :
        Apply("get_row", get_row(Cur, table, arg, index))

DeleteRow(T, P) ==
    \E table \in T, arg \in P : Apply("delete_row", delete_row(Cur, table, arg))

\* one more call of a run whose length is bounded
Count == calls < MaxCalls /\ calls' = calls + 1

\* the database file is deleted by another program
RemoveFile ==
    /\ fileExists
    /\ fileExists' = FALSE
    /\ disk' = EmptyDisk
    /\ lastOp' = "remove_file"
    /\ lastResult' = "ok"
    /\ lastReturn' = NoValue
    /\ UNCHANGED <<tables, calls, tasks>>

\* an empty database file is put at the path by another program
CreateFile ==
    /\ ~fileExists
    /\ fileExists' = TRUE
    /\ disk' = EmptyDisk
    /\ lastOp' = "create_file"
    /\ lastResult' = "ok"
    /\ lastReturn' = NoValue
    /\ UNCHANGED <<tables, calls, tasks>>

\* Db.__init__ on an existing, empty file
Fresh == [file |-> TRUE, tables |-> EmptyMap, disk |-> EmptyDisk]

Init ==
    /\ fileExists = Fresh.file
    /\ tables = Fresh.tables
    /\ disk = Fresh.disk
    /\ lastOp = "init"
    /\ lastResult = "ok"
    /\ lastReturn = NoValue
    /\ calls = 0
    /\ tasks = NoTasks

---------------------------------------------------------------------------
(* The schema runs: sequences of at most MaxCalls declare table, add       *)
(* column, rename table, drop table and drop column calls on an empty      *)
(* database.                                                               *)

SchemaNewTable == NewTable(TableNames \cup RefusedNames) /\ Count

SchemaAddColumn == AddColumn(TableNames, ColNames, ColumnSpecs) /\ Count

SchemaEditTable == EditTable(TableNames, TableNames \cup RefusedNames) /\ Count

SchemaDeleteTable == DeleteTable(TableNames) /\ Count

SchemaDeleteColumn == DeleteColumn(TableNames, ColNames) /\ Count

Next ==
    \/ SchemaNewTable
    \/ SchemaAddColumn
    \/ SchemaEditTable
    \/ SchemaDeleteTable
    \/ SchemaDeleteColumn

Spec == Init /\ [][Next]_vars

---------------------------------------------------------------------------
(* The file runs: every public coroutine on one table, while the database  *)
(* file is removed and put back from outside.                              *)

FileTables == {name_a}

FileColumns == {name_x}

FileSpecs == {PrimaryKey("INTEGER"), Plain("TEXT")}

FilePairs == Pairs({name_x}, {IntV(1)})

FileLoadData == LoadData /\ UNCHANGED calls

FileClearDatabase == ClearDatabase /\ UNCHANGED calls

FileNewTable == NewTable(FileTables) /\ UNCHANGED calls

FileGetTable == GetTable(FileTables) /\ UNCHANGED calls

FileEditTable == EditTable(FileTables, {temp_table_name(name_a)}) /\ UNCHANGED calls

FileDeleteTable == DeleteTable(FileTables) /\ UNCHANGED calls

FileAddColumn == AddColumn(FileTables, FileColumns, FileSpecs) /\ UNCHANGED calls

FileGetColumn == GetColumn(FileTables, FileColumns) /\ UNCHANGED calls

FileDeleteColumn == DeleteColumn(FileTables, FileColumns) /\ UNCHANGED calls

FileAddRow == AddRow(FileTables, {<<p>> : p \in FilePairs}) /\ UNCHANGED calls

FileEditRow == EditRow(FileTables, FilePairs) /\ UNCHANGED calls

FileGetRow == GetRow(FileTables, FilePairs) /\ UNCHANGED calls

FileDeleteRow == DeleteRow(FileTables, FilePairs) /\ UNCHANGED calls

NextFile ==
    \/ FileLoadData
    \/ FileClearDatabase
    \/ FileNewTable
    \/ FileGetTable
    \/ FileEditTable
    \/ FileDeleteTable
    \/ FileAddColumn
    \/ FileGetColumn
    \/ FileDeleteColumn
    \/ FileAddRow
    \/ FileEditRow
    \/ FileGetRow
    \/ FileDeleteRow
    \/ RemoveFile
    \/ CreateFile

SpecFile == Init /\ [][NextFile]_vars

---------------------------------------------------------------------------
(* The row runs: row operations and drop column on table a, declared with  *)
(* a first column x and a second column y.                                 *)

\* the add_column arguments of x and of y
RowSchemas ==
    { <<PrimaryKey("INTEGER"), Plain("TEXT")>>,
      <<PrimaryKey("INTEGER"), Unique("TEXT")>>,
      <<ColumnSpec("TEXT", FALSE, FALSE, TRUE, TRUE, "None"), Plain("INTEGER")>>,
      <<NotNull("BLOB"), NotNull("INTEGER")>>,
      <<PrimaryKey("TEXT"), Plain("INTEGER")>> }

\* the handle after new_table(a), add_column(a, x, ..), add_column(a, y, ..)
Declared(schema) ==
    LET r0 == new_table(Fresh, name_a)
        r1 == add_column(r0.st, name_a, name_x, schema[1])
    IN  add_column(r1.st, name_a, name_y, schema[2])

InitRows ==
    \E schema \in RowSchemas :
        /\ fileExists = Declared(schema).st.file
        /\ tables = Declared(schema).st.tables
        /\ disk = Declared(schema).st.disk
        /\ lastOp = "add_column"
        /\ lastResult = Declared(schema).res
        /\ lastReturn = NoValue
        /\ calls = 3
        /\ tasks = NoTasks

RowTables == {name_a}

RowColumns == {name_x, name_y}

RowPairs == Pairs(RowColumns, Values)

RowsGetTable == GetTable(RowTables) /\ UNCHANGED calls

RowsGetColumn == GetColumn(RowTables, RowColumns) /\ UNCHANGED calls

RowsDeleteColumn == DeleteColumn(RowTables, RowColumns) /\ UNCHANGED calls

RowsAddRow == AddRow(RowTables, RowArgs) /\ UNCHANGED calls

RowsEditRow == EditRow(RowTables, RowPairs) /\ UNCHANGED calls

RowsGetRow == GetRow(RowTables, RowPairs) /\ UNCHANGED calls

RowsDeleteRow == DeleteRow(RowTables, RowPairs) /\ UNCHANGED calls

NextRows ==
    \/ RowsGetTable
    \/ RowsGetColumn
    \/ RowsDeleteColumn
    \/ RowsAddRow
    \/ RowsEditRow
    \/ RowsGetRow
    \/ RowsDeleteRow

SpecRows == InitRows /\ [][NextRows]_vars

---------------------------------------------------------------------------
(* The drop runs: drop column on table a, which holds rows, while a table  *)
(* with the name of its shadow table, temp_a, comes and goes.              *)

DropTables == {name_a, temp_table_name(name_a)}

DropColumns == {name_x, name_y}

DropArgs ==
    {<< <<name_x, v>> >> : v \in {IntV(1), Null}}
      \cup {<< <<name_x, Null>>, <<name_y, StrV(name_y)>> >>}

InitDrop ==
    LET r == Declared(<<PrimaryKey("INTEGER"), Plain("TEXT")>>)
    IN  /\ fileExists = r.st.file
        /\ tables = r.st.tables
        /\ disk = r.st.disk
        /\ lastOp = "add_column"
        /\ lastResult = r.res
        /\ lastReturn = NoValue
        /\ calls = 3
        /\ tasks = NoTasks

DropNewTable == NewTable({temp_table_name(name_a)}) /\ UNCHANGED calls

DropAddColumn ==
    AddColumn({temp_table_name(name_a)}, {name_x}, {Plain("INTEGER")}) /\ UNCHANGED calls

DropDeleteTable == DeleteTable({temp_table_name(name_a)}) /\ UNCHANGED calls

DropAddRow == AddRow({name_a}, DropArgs) /\ UNCHANGED calls

DropDeleteColumn == DeleteColumn(DropTables, DropColumns) /\ UNCHANGED calls

NextDrop ==
    \/ DropNewTable
    \/ DropAddColumn
    \/ DropDeleteTable
    \/ DropAddRow
    \/ DropDeleteColumn

SpecDrop == InitDrop /\ [][NextDrop]_vars

---------------------------------------------------------------------------
(* The concurrent runs: up to MaxTasks add_column coroutines on one handle, *)
(* each advancing from one await to the next, between declare table calls  *)
(* (Db.new_table has no await and runs in one step).                       *)

TaskTables == {name_a}

TaskColumns == {name_x, name_y, name_z}

TaskSpecs == {Plain("INTEGER"), PrimaryKey("INTEGER"), Unique("TEXT")}

\* the state a step of a task leaves, the call still in flight
Suspend(st) ==
    /\ fileExists' = st.file
    /\ tables' = st.tables
    /\ disk' = st.disk
    /\ UNCHANGED <<lastOp, lastResult, lastReturn>>

\* a task calls add_column and runs to the await of _get_pk, or to the raise
TaskStart(t, T, C, S) ==
    /\ tasks[t].pc = "idle"
    /\ \E table \in T, name \in C, c \in S :
          LET r == add_column_begin(Cur, table, name, c)
          IN  IF r.res # "ok" THEN Apply("add_column", r)
              ELSE /\ Suspend(r.st)
                   /\ tasks' = [tasks EXCEPT ![t] =
                         [pc |-> "get_pk", table |-> table, name |-> name, c |-> c,
                          primary_key_col |-> <<>>, args |-> <<>>]]

\* _get_pk returns to the task, which runs to the await of the connection
TaskGetPk(t) ==
    /\ tasks[t].pc = "get_pk"
    /\ LET r == add_column_parameters(Cur, tasks[t].table, tasks[t].c)
       IN  IF r.res # "ok"
           THEN /\ fileExists' = r.st.file
                /\ tables' = r.st.tables
                /\ disk' = r.st.disk
                /\ lastOp' = "add_column"
                /\ lastResult' = r.res
                /\ lastReturn' = NoValue
                /\ tasks' = [tasks EXCEPT ![t] = Idle]
           ELSE /\ Suspend(r.st)
                /\ tasks' = [tasks EXCEPT ![t].pc = "execute",
                                          ![t].primary_key_col = r.primary_key_col]

\* the task's statement runs and is committed, and the call ends
TaskExecute(t) ==
    /\ tasks[t].pc = "execute"
    /\ LET r == add_column_statement(Cur, tasks[t].table, tasks[t].name,
                                     tasks[t].c, tasks[t].primary_key_col)
       IN  /\ fileExists' = r.st.file
           /\ tables' = r.st.tables
           /\ disk' = r.st.disk
           /\ lastOp' = "add_column"
           /\ lastResult' = r.res
           /\ lastReturn' = r.ret
           /\ tasks' = [tasks EXCEPT ![t] = Idle]

TasksNewTable == NewTable(TaskTables) /\ UNCHANGED calls

TasksStart == \E t \in TaskIds : TaskStart(t, TaskTables, TaskColumns, TaskSpecs) /\ UNCHANGED calls

TasksGetPk == \E t \in TaskIds : TaskGetPk(t) /\ UNCHANGED calls

TasksExecute == \E t \in TaskIds : TaskExecute(t) /\ UNCHANGED calls

NextTasks ==
    \/ TasksNewTable
    \/ TasksStart
    \/ TasksGetPk
    \/ TasksExecute

SpecTasks == Init /\ [][NextTasks]_vars

---------------------------------------------------------------------------
(* The paired runs: two tasks each call add_column once, with different    *)
(* names, on a table that has just been declared; the second call is made  *)
(* once the first has reached an await.                                    *)

PairIds == {1, 2}

PairNames == <<name_x, name_y>>

PairSpecs == {Plain("INTEGER"), Plain("REAL"), Plain("TEXT"), Plain("BLOB")}

InitPair ==
    LET r == new_table(Fresh, name_a)
    IN  /\ fileExists = r.st.file
        /\ tables = r.st.tables
        /\ disk = r.st.disk
        /\ lastOp = "new_table"
        /\ lastResult = r.res
        /\ lastReturn = NoValue
        /\ calls = 0
        /\ tasks = NoTasks

PairStart ==
    \E t \in PairIds :
        /\ calls = t - 1
        /\ TaskStart(t, {name_a}, {PairNames[t]}, PairSpecs)
        /\ calls' = calls + 1

PairGetPk == \E t \in PairIds : TaskGetPk(t) /\ UNCHANGED calls

PairExecute == \E t \in PairIds : TaskExecute(t) /\ UNCHANGED calls

NextPair ==
    \/ PairStart
    \/ PairGetPk
    \/ PairExecute

SpecPair == InitPair /\ [][NextPair]_vars

---------------------------------------------------------------------------
(* The paired inserts: two tasks each call add_row once on a declared,     *)
(* empty table, both with the same value for the primary-key column; the   *)
(* second call is made once the first has reached an await.  Nothing       *)
(* changes the schema during the run, so the reads of the declared types   *)
(* are taken with the start of the call.                                   *)

InsertSchemas ==
    { <<PrimaryKey("INTEGER"), Plain("TEXT")>>,
      <<PrimaryKey("TEXT"), Plain("INTEGER")>>,
      <<ColumnSpec("INTEGER", TRUE, TRUE, FALSE, FALSE, "None"), Plain("TEXT")>>,
      <<ColumnSpec("TEXT", TRUE, FALSE, TRUE, FALSE, "None"), Plain("INTEGER")>> }

\* one pair, for the primary-key column of the table
InsertArgs(st, table) == {<< <<get_pk(st, table), v>> >> : v \in Values}

InitInsert ==
    \E schema \in InsertSchemas :
        /\ fileExists = Declared(schema).st.file
        /\ tables = Declared(schema).st.tables
        /\ disk = Declared(schema).st.disk
        /\ lastOp = "add_column"
        /\ lastResult = Declared(schema).res
        /\ lastReturn = NoValue
        /\ calls = 0
        /\ tasks = NoTasks

\* the call of task t ends
RowTaskEnd(t, r) ==
    /\ fileExists' = r.st.file
    /\ tables' = r.st.tables
    /\ disk' = r.st.disk
    /\ lastOp' = "add_row"
    /\ lastResult' = r.res
    /\ lastReturn' = r.ret

\* a task calls add_row and runs to the await of get_table, or to the raise
RowTaskStart(t, T, A) ==
    /\ tasks[t].pc = "idle"
    /\ \E table \in T, args \in A :
          LET r == add_row_begin(Cur, table, args)
              called == [Idle EXCEPT !.table = table, !.args = args]
          IN  IF r.res # "ok"
              THEN RowTaskEnd(t, r) /\ tasks' = [tasks EXCEPT ![t] = called]
              ELSE /\ Suspend(r.st)
                   /\ tasks' = [tasks EXCEPT ![t] = [called EXCEPT !.pc = "constraints"]]

\* the task reads the rows and tests its values, up to the await of the
\* connection
RowTaskCheck(t) ==
    /\ tasks[t].pc = "constraints"
    /\ LET r == add_row_constraints(Cur, tasks[t].table, tasks[t].args)
       IN  IF r.res # "ok"
           THEN RowTaskEnd(t, r) /\ tasks' = [tasks EXCEPT ![t].pc = "idle"]
           ELSE Suspend(r.st) /\ tasks' = [tasks EXCEPT ![t].pc = "insert"]

\* the task's INSERT runs and is committed, and the call ends
RowTaskInsert(t) ==
    /\ tasks[t].pc = "insert"
    /\ LET r == add_row_statement(Cur, tasks[t].table, tasks[t].args)
       IN  RowTaskEnd(t, r) /\ tasks' = [tasks EXCEPT ![t].pc = "idle"]

InsertStart ==
    \E t \in PairIds :
        /\ calls = t - 1
        /\ RowTaskStart(t, {name_a},
                        IF t = 1 THEN InsertArgs(Cur, name_a) ELSE {tasks[1].args})
        /\ calls' = calls + 1

InsertCheck == \E t \in PairIds : RowTaskCheck(t) /\ UNCHANGED calls

InsertExecute == \E t \in PairIds : RowTaskInsert(t) /\ UNCHANGED calls

NextInsert ==
    \/ InsertStart
    \/ InsertCheck
    \/ InsertExecute

SpecInsert == InitInsert /\ [][NextInsert]_vars

---------------------------------------------------------------------------
(* Cache and file of the schema runs.                                      *)

\* the cached column list of table t names the columns of the table on disk,
\* in order and with the declared types
SameColumns(t) ==
    /\ t \in DOMAIN disk.tbl
    /\ Len(tables[t]) = Len(disk.tbl[t].cols)
    /\ \A i \in 1..Len(tables[t]) :
          /\ tables[t][i].name = disk.tbl[t].cols[i].name
          /\ tables[t][i].type = disk.tbl[t].cols[i].type

CacheMatchesDisk ==
    /\ \A t \in DOMAIN tables : Len(tables[t]) > 0 => SameColumns(t)
    /\ \A t \in DOMAIN disk.tbl : t \in DOMAIN tables

SchemaCalls == {"new_table", "add_column", "edit_table", "delete_table", "delete_column"}

\* C1: after every declare table, add column, rename table, drop table or
\* drop column call that returns without error, each cached table with at
\* least one column has the ordered column names and declared types of the
\* table of that name on disk, and every table on disk is in the cache.
C1_CacheReflectsDisk ==
    (lastOp \in SchemaCalls /\ lastResult = "ok") => CacheMatchesDisk

\* C2: an add column call that raises an error leaves the schema cache as it
\* was before the call.
C2_FailedAddColumnKeepsCache ==
    [][(lastOp' = "add_column" /\ lastResult' # "ok") => tables' = tables]_vars

\* C3: a rename table, drop table or drop column call whose statement fails
\* with an engine error leaves the schema cache as it was before the call.
C3_FailedStatementKeepsCache ==
    [][(/\ lastOp' \in {"edit_table", "delete_table", "delete_column"}
        /\ lastResult' = "AioEasySqliteError")
       => tables' = tables]_vars

---------------------------------------------------------------------------
(* A missing database file.                                                *)

PublicCalls ==
    {"load_data", "clear_database", "new_table", "get_table", "edit_table",
     "delete_table", "add_column", "get_column", "delete_column", "add_row",
     "edit_row", "get_row", "delete_row"}

\* C4: a public call made while the database file does not exist raises
\* PathNotFound, leaves the schema cache as it was and does not create the
\* file.
C4_MissingFileRaisesPathNotFound ==
    [][(~fileExists /\ lastOp' \in PublicCalls)
       => /\ lastResult' = "PathNotFound"
          /\ tables' = tables
          /\ ~fileExists'
          /\ disk' = disk]_vars

\* a call was refused for the missing file while the cache holds a table
\* with a column
C4_Witness ==
    /\ ~fileExists
    /\ lastOp \in PublicCalls
    /\ lastResult = "PathNotFound"
    /\ name_a \in DOMAIN tables
    /\ tables[name_a] # <<>>

---------------------------------------------------------------------------
(* Rows of table a.                                                        *)

\* the rows list table returns for table a in a state of the handle
Listed(st) ==
    LET r == get_table(st, name_a)
    IN  IF r.ret.kind = "rows" THEN r.ret.val ELSE <<>>

\* table a is cached and on disk
Materialized == name_a \in DOMAIN tables /\ name_a \in DOMAIN disk.tbl

\* the rows of table a whose column pair[1] equals pair[2]
Selected(rows, pair) ==
    {i \in 1..Len(rows) :
        /\ pair[1] \in DOMAIN rows[i]
        /\ SqlEq(rows[i][pair[1]],
                 ApplyAffinity(get_type(Cur, name_a, pair[1]), pair[2]))}

\* the row a get row call returned holds the supplied value in every
\* supplied column
HoldsAll(ret, args) ==
    /\ ret.kind = "row"
    /\ \A j \in 1..Len(args) :
          /\ args[j][1] \in DOMAIN ret.val[1]
          /\ PyEq(ret.val[1][args[j][1]], args[j][2])

\* after is before with one row put in
OneMoreRow(before, after) ==
    /\ Len(after) = Len(before) + 1
    /\ \E p \in 1..Len(after) : RemoveAt(after, p) = before

\* insert row with args, then get row by the primary-key pair of args
RoundTrip(args) ==
    LET r == add_row(Cur, name_a, args)
        key == get_pk(Cur, name_a)
    IN  (/\ r.res = "ok"
         /\ key # <<>>
         /\ \E i \in 1..Len(args) : args[i][1] = key)
        => /\ \A i \in 1..Len(args) :
                 args[i][1] = key
                 => HoldsAll(get_row(r.st, name_a, args[i], NoIndex).ret, args)
           /\ OneMoreRow(Listed(Cur), Listed(r.st))

\* every value of args is an int for an INTEGER column or a str for a TEXT
\* column, or None for a column other than the primary key
Native(args) ==
    \A i \in 1..Len(args) :
        /\ Len(args[i]) = 2
        /\ \/ get_type(Cur, name_a, args[i][1]) = "INTEGER" /\ args[i][2].k = "int"
           \/ get_type(Cur, name_a, args[i][1]) = "TEXT" /\ args[i][2].k = "str"
           \/ args[i][2].k = "null" /\ args[i][1] # get_pk(Cur, name_a)

\* C5 as stated: after a successful insert row whose pairs include the
\* primary-key column c with value v, get row by (c, v) returns a mapping
\* holding every supplied value, and list table returns the earlier rows
\* and one more.
C5_RoundTrip == \A args \in RowArgs : RoundTrip(args)

\* C5: after a successful insert row whose values are ints for INTEGER
\* columns and strs for TEXT columns (None allowed outside the key) and whose
\* pairs include the primary-key column c with value v, get row by (c, v)
\* returns a mapping holding every supplied value, and list table returns
\* the earlier rows and one more.
C5_NativeRoundTrip == \A args \in RowArgs : Native(args) => RoundTrip(args)

\* a second row went into a table with a TEXT primary key, and get row by
\* its key returns it with the value of the other column
C5_Witness ==
    /\ lastOp = "add_row"
    /\ lastResult = "ok"
    /\ get_pk(Cur, name_a) = name_x
    /\ get_type(Cur, name_a, name_x) = "TEXT"
    /\ Len(Listed(Cur)) = 2
    /\ Listed(Cur)[2][name_x] = StrV(name_y)
    /\ HoldsAll(get_row(Cur, name_a, <<name_x, StrV(name_y)>>, NoIndex).ret,
                << <<name_x, StrV(name_y)>>, <<name_y, IntV(1)>> >>)

\* column c of table a is the primary key or is cached as unique
DeclaredUnique(c) ==
    /\ name_a \in DOMAIN tables
    /\ c = get_pk(Cur, name_a) \/ c \in get_uq(Cur, name_a)

\* C6: for a column that is unique or the primary key, a second insert row
\* of a value after a first successful insert row of the same value raises
\* UniqueConstraintViolation and adds no row.
C6_SecondInsertRefused ==
    \A c \in RowColumns, v \in Values :
        LET first == add_row(Cur, name_a, << <<c, v>> >>)
            second == add_row(first.st, name_a, << <<c, v>> >>)
        IN  (DeclaredUnique(c) /\ first.res = "ok")
            => /\ second.res = "UniqueConstraintViolation"
               /\ second.st.disk = first.st.disk

\* C7: insert row with None for a column declared not null raises
\* NotNullConstraintViolation and writes no row.
C7_NullRefused ==
    \A c \in RowColumns :
        (/\ name_a \in DOMAIN tables
         /\ c \in CachedNames(Cur, name_a)
         /\ c \in get_nn(Cur, name_a))
        => LET r == add_row(Cur, name_a, << <<c, Null>> >>)
           IN  /\ r.res = "NotNullConstraintViolation"
               /\ r.st.disk = disk

\* C8: a successful edit row sets the edit column of the first row whose
\* find column equals the find value to the new value and changes nothing
\* else; when no row matches, no row changes.
C8_EditsFirstMatchOnly ==
    \A find_args \in RowPairs, edit_args \in RowPairs :
        LET r == edit_row(Cur, name_a, find_args, edit_args)
            before == Listed(Cur)
            after == Listed(r.st)
            sel == Selected(before, find_args)
            i == Min(sel)
            edited == [before[i] EXCEPT ![edit_args[1]] =
                         ApplyAffinity(get_type(Cur, name_a, edit_args[1]),
                                       edit_args[2])]
        IN  (Materialized /\ r.res = "ok")
            => IF sel = {} THEN after = before
               ELSE /\ Len(after) = Len(before)
                    /\ \E p \in 1..Len(after) :
                          /\ after[p] = edited
                          /\ RemoveAt(after, p) = RemoveAt(before, i)

\* C9: for an edit column that is unique or the primary key, edit row raises
\* UniqueConstraintViolation exactly when the new value is stored in the
\* edit column of a row other than the row the find pair selects.
C9_ViolationIffOtherRowHolds ==
    \A find_args \in RowPairs, edit_args \in RowPairs :
        LET r == edit_row(Cur, name_a, find_args, edit_args)
            rows == Listed(Cur)
            sel == Selected(rows, find_args)
            others == IF sel = {} THEN 1..Len(rows) ELSE (1..Len(rows)) \ {Min(sel)}
            held == others \cap Selected(rows, edit_args)
        IN  (/\ Materialized
             /\ DeclaredUnique(edit_args[1])
             /\ find_args[1] \in CachedNames(Cur, name_a)
             /\ edit_args[1] \in CachedNames(Cur, name_a)
             /\ CheckEditValue(get_type(Cur, name_a, edit_args[1]), edit_args[2]).res = "ok")
            => (r.res = "UniqueConstraintViolation" <=> held # {})

\* C10: delete row removes the first row whose column equals the value and
\* no other row; when none matches no row is deleted; a later get row by the
\* same pair returns none only when no matching row remains.
C10_DeletesFirstMatchOnly ==
    \A arg \in RowPairs :
        LET r == delete_row(Cur, name_a, arg)
            before == Listed(Cur)
            after == Listed(r.st)
            sel == Selected(before, arg)
        IN  (Materialized /\ r.res = "ok")
            => /\ after = IF sel = {} THEN before ELSE RemoveAt(before, Min(sel))
               /\ get_row(r.st, name_a, arg, NoIndex).ret.kind = "none"
                     => Selected(after, arg) = {}

---------------------------------------------------------------------------
(* Reading rows and columns of table a.                                    *)

\* C11: for a declared table whose list table returns n rows, get row by
\* index raises InvalidIndexValue for an index below 0, IndexOutOfRange for
\* an index of n or more (n = 0 included), and returns the row at that
\* position otherwise.
C11_IndexBounds ==
    \A i \in -1..MaxRows :
        LET r == get_row(Cur, name_a, NoArg, Index(i))
            n == Len(Listed(Cur))
        IN  (name_a \in DOMAIN tables /\ get_table(Cur, name_a).res = "ok")
            => /\ i < 0 => r.res = "InvalidIndexValue"
               /\ i >= n => r.res = "IndexOutOfRange"
               /\ (0 <= i /\ i < n)
                     => r.res = "ok" /\ r.ret = RowValue(Listed(Cur)[i + 1])

\* column c is a column of table a in the cache and in the file
Stored(c) ==
    /\ Materialized
    /\ c \in CachedNames(Cur, name_a)
    /\ c \in Range(ColumnNames(disk.tbl[name_a].cols))

\* C12: get column values returns one pair per row, in row order: the
\* row's value in the column, preceded by the row's primary-key value for
\* the tag "PK" and by the row's position for the tag "IND"; it returns none
\* when the table has no rows.
C12_PairsPerRow ==
    \A c \in RowColumns, tag \in {"PK", "IND"} :
        LET r == get_column(Cur, name_a, c, tag)
            rows == Listed(Cur)
            key == get_pk(Cur, name_a)
        IN  (Stored(c) /\ (tag = "PK" => key # <<>>))
            => /\ r.res = "ok"
               /\ r.ret = IF rows = <<>> THEN NoValue
                          ELSE PairsValue([i \in 1..Len(rows) |->
                                 << IF tag = "PK" THEN rows[i][key] ELSE IntV(i - 1),
                                    rows[i][c] >>])

---------------------------------------------------------------------------
(* Drop column.                                                            *)

\* the rows of a table projected onto the columns named in names
Projected(rows, names) ==
    [i \in 1..Len(rows) |-> [c \in Range(names) |-> rows[i][c]]]

\* the column names of a table on disk without column
Remaining(d, table, column) ==
    LET names == ColumnNames(d.tbl[table].cols)
    IN  SelectSeqBy(names, {i \in 1..Len(names) : names[i] # column})

C14_DropOnlyColumnDropsTable ==
    \A table \in TableNames, column \in ColNames :
        LET r == delete_column(Cur, table, column)
            gone == delete_table(Cur, table)
            cached == tables[table]
            kept == SelectSeqBy(cached,
                       {i \in 1..Len(cached) : cached[i].name # column})
        IN  (/\ table \in DOMAIN tables
             /\ column \in CachedNames(Cur, table)
             /\ r.res = "ok")
            => IF Len(cached) = 1
               THEN r.st.tables = gone.st.tables /\ r.st.disk = gone.st.disk
               ELSE r.st.tables = [tables EXCEPT ![table] = kept]

\* C15: drop column on a table that is not declared raises TableNotFound,
\* drop column on a declared table without the column raises
\* ColumnNotFound, and both leave the cache and the file as they were.
C15_DropColumnPreconditions ==
    \A table \in TableNames, column \in ColNames :
        LET r == delete_column(Cur, table, column)
        IN  /\ table \notin DOMAIN tables
                 => r.res = "TableNotFound" /\ r.st = Cur
            /\ (table \in DOMAIN tables /\ column \notin CachedNames(Cur, table))
                 => r.res = "ColumnNotFound" /\ r.st = Cur

\* C16: for a declared table and a new name that passes the character rule
\* and is not declared, rename table returns without error; afterwards the
\* old name is not cached and the new name is cached with the column list
\* the old name had.
C16_RenameMovesEntry ==
    \A table \in TableNames, new_name \in TableNames \cup RefusedNames :
        LET r == edit_table(Cur, table, new_name)
        IN  (/\ table \in DOMAIN tables
             /\ AllCharsAvailable(new_name)
             /\ new_name \notin DOMAIN tables)
            => /\ r.res = "ok"
               /\ table \notin DOMAIN r.st.tables
               /\ new_name \in DOMAIN r.st.tables
               /\ r.st.tables[new_name] = tables[table]

---------------------------------------------------------------------------
(* Loading the schema of the file.                                         *)

\* the column is a member of a unique index of its table: it is declared
\* UNIQUE, or it is a primary key that is not an alias of the rowid
InUniqueIndex(cols, col) ==
    col.unique \/ (col.pk /\ col.name # RowidAlias(cols))

\* C17: after load existing schema the cache holds exactly the tables of
\* the catalog, each with its columns in declaration order and their
\* declared types, and a column is flagged unique exactly when it is a
\* member of a unique index on disk.
C17_LoadMirrorsCatalog ==
    LET r == load_data(Cur)
        loaded == r.st.tables
    IN  /\ r.res = "ok"
        /\ DOMAIN loaded = DOMAIN Catalog(disk)
        /\ \A t \in DOMAIN disk.tbl :
              LET cols == disk.tbl[t].cols
              IN  /\ Len(loaded[t]) = Len(cols)
                  /\ \A i \in 1..Len(cols) :
                        /\ loaded[t][i].name = cols[i].name
                        /\ loaded[t][i].type = cols[i].type
                        /\ loaded[t][i].is_unique <=> InUniqueIndex(cols, cols[i])


---------------------------------------------------------------------------
(* Concurrent add_column calls.                                            *)

NoDuplicateNames(columns) ==
    \A i, j \in 1..Len(columns) : columns[i].name = columns[j].name => i = j

\* C18: in every state reached by declare table calls and add column calls
\* of several tasks interleaved at their awaits, no table's cached column
\* list holds two descriptors with the same name.
C18_NoDuplicateCachedNames ==
    \A t \in DOMAIN tables : NoDuplicateNames(tables[t])

\* two calls are in flight on one table at once, both names cached and
\* neither column on disk yet, after a third call for one of the names was
\* refused
C18_Witness ==
    /\ tasks[1].pc = "execute"
    /\ tasks[2].pc = "get_pk"
    /\ tasks[1].table = tasks[2].table
    /\ {tasks[1].name, tasks[2].name} \subseteq CachedNames(Cur, tasks[1].table)
    /\ tasks[1].table \notin DOMAIN disk.tbl
    /\ lastOp = "add_column"
    /\ lastResult = "ColumnAlreadyExists"


---------------------------------------------------------------------------
(* Type validation of insert row and edit row.                             *)

\* the exceptions the type checks of insert row and edit row raise
TypeFailures == {"InvalidValueConversion", "EncodeError", "UnsupportedValueType",
                 "TypeError"}

\* the host type of a declared column type
HostKind(ctype) ==
    CASE ctype = "INTEGER" -> "int"
      [] ctype = "REAL" -> "float"
      [] ctype = "TEXT" -> "str"
      [] ctype = "BLOB" -> "bytes"
      [] OTHER -> "none"

\* C19: insert row's type validation accepts a value of the host type of
\* the column's declared type, accepts a str for a BLOB column, rejects bytes
\* for a column that is not BLOB with InvalidValueConversion, and never
\* raises the built-in TypeError.
C19_InsertTypeValidation ==
    \A c \in RowColumns, v \in Values :
        Stored(c) =>
            LET ctype == get_type(Cur, name_a, c)
                r == add_row(Cur, name_a, << <<c, v>> >>)
            IN  /\ v.k = HostKind(ctype) => r.res \notin TypeFailures
                /\ (ctype = "BLOB" /\ v.k = "str") => r.res \notin TypeFailures
                /\ (v.k = "bytes" /\ ctype # "BLOB") => r.res = "InvalidValueConversion"
                /\ r.res # "TypeError"

\* C20: for every stored column and new value, edit row raises a type
\* validation error exactly when insert row raises one for the same column
\* and value, and a str for a BLOB column passes edit row's validation.
C20_EditValidatesAsInsert ==
    \A c \in RowColumns, v \in Values, find \in RowPairs :
        (Stored(c) /\ Stored(find[1])) =>
            LET ctype == get_type(Cur, name_a, c)
                e == edit_row(Cur, name_a, find, <<c, v>>)
                i == add_row(Cur, name_a, << <<c, v>> >>)
            IN  /\ e.res \in TypeFailures <=> i.res \in TypeFailures
                /\ (ctype = "BLOB" /\ v.k = "str") => e.res \notin TypeFailures


---------------------------------------------------------------------------
(* Constraints after a drop column.                                        *)

\* the values stored in column c of a table on disk
StoredValues(d, table, c) == {d.tbl[table].rows[i][c] : i \in 1..Len(d.tbl[table].rows)}

\* C21: after a successful drop of a column other than the primary key k of
\* a table, k is still the table's primary key and an insert row giving k a
\* value a row already holds raises UniqueConstraintViolation.
C21_DropColumnKeepsPrimaryKey ==
    \A table \in DropTables, column \in DropColumns :
        LET k == get_pk(Cur, table)
            r == delete_column(Cur, table, column)
        IN  (/\ table \in DOMAIN tables
             /\ table \in DOMAIN disk.tbl
             /\ k # <<>>
             /\ column # k
             /\ r.res = "ok")
            => /\ get_pk(r.st, table) = k
               /\ \A v \in StoredValues(disk, table, k) :
                     add_row(r.st, table, << <<k, v>> >>).res
                        = "UniqueConstraintViolation"


---------------------------------------------------------------------------
(* Two concurrent add_column calls on a fresh table.                       *)

\* both calls of the paired run have been made and have ended
PairEnded == calls = Cardinality(PairIds) /\ \A t \in PairIds : tasks[t].pc = "idle"

\* C22: of two concurrent add column calls with different names on a table
\* just declared, each ends without error, in every interleaving at the
\* awaits, and when both have ended the table is on disk and in the cache
\* with both columns.
C22_BothColumnsAdded ==
    /\ lastOp = "add_column" => lastResult = "ok"
    /\ PairEnded
       => /\ name_a \in DOMAIN disk.tbl
          /\ Range(ColumnNames(disk.tbl[name_a].cols)) = Range(PairNames)
          /\ CachedNames(Cur, name_a) = Range(PairNames)


---------------------------------------------------------------------------
(* Two concurrent add_row calls with the same primary-key value.           *)

\* the exception classes of aioeasysqlite.exceptions that add_row raises
LibraryErrors ==
    {"AioEasySqliteError", "PathNotFound", "TableNotFound", "ColumnNotFound",
     "InvalidArgsType", "InvalidArgsLength", "DuplicateColumnInArgs",
     "InvalidValueConversion", "EncodeError", "UnsupportedValueType",
     "UniqueConstraintViolation", "NotNullConstraintViolation"}

\* C23: of two concurrent insert row calls on an empty table with the same
\* value for the primary-key column, at most one adds a row, in every
\* interleaving at the awaits; the table never holds two rows with the same
\* primary-key value, and a call that fails raises an exception of the
\* library.
C23_OneInsertWins ==
    LET rows == disk.tbl[name_a].rows
        k == get_pk(Cur, name_a)
    IN  /\ Len(rows) <= 1
        /\ \A i, j \in 1..Len(rows) : rows[i][k] = rows[j][k] => i = j
        /\ (lastOp = "add_row" /\ lastResult # "ok") => lastResult \in LibraryErrors

====
